---- MODULE Spec2Model ----
(***************************************************************************)
(* Model of HttpServer (src/core/server/http/http_server.ts): the server   *)
(* lifecycle (setup / start / stop), the registration of routers,          *)
(* lifecycle hooks and the single authentication scheme, the per-request   *)
(* base-path and auth-state side tables, and the request pipeline that     *)
(* the hapi listener runs over the registered chains.                      *)
(*                                                                         *)
(* Strings that the code slices or compares by prefix are sequences of     *)
(* one-character strings (<<"/", "a">> is "/a").  The three async methods  *)
(* (start, stop, registerAuth) are split at their await: the part before   *)
(* the await is one action, the continuation another, so that other calls  *)
(* can interleave exactly where the event loop lets them.                  *)
(***************************************************************************)
EXTENDS Integers, Sequences, FiniteSets, TLC

(* ----------------------------- bounds ---------------------------------- *)
\* number of setup() calls explored (each creates one listener)
MaxListeners == 2
\* number of hooks registered through the setup capability, over all chains
MaxHooks == 2
\* number of requests
MaxRequests == 1
\* length of the paths that the path helpers are explored on
MaxLen == 3

Requests == 1..MaxRequests

(* ------------------------- values and inputs --------------------------- *)
\* `undefined` for an optional string (distinct from every path)
Undefined == <<"undefined">>
\* absence of a key in the basePathCache / authState WeakMap
NoBasePath == <<"none">>
NoAuthState == "none"

\* the server base path used by the configs
AppBasePath == <<"/", "p">>

\* HttpConfig values handed to setup (only the fields HttpServer reads)
Configs ==
  { [basePath |-> bp, rewriteBasePath |-> rw] :
      bp \in {Undefined, AppBasePath}, rw \in BOOLEAN }

\* values handed to setBasePathFor, the empty string included
BasePaths == { <<>>, <<"/", "s">> }

\* session states an authentication handler can return; "undefined" is an
\* authenticated result that carries no state
AuthStates == { "undefined", "s1" }

\* The Router a collaborator creates: a path prefix and the routes of
\* router.getRoutes(), one that requires authentication and one that does not
RouterA ==
  [path |-> <<"/", "a", "/">>,
   routes |-> { [method |-> "GET", path |-> <<"/", "x">>, authRequired |-> TRUE],
                [method |-> "GET", path |-> <<"y">>, authRequired |-> FALSE] }]
Routers == { RouterA }

\* URLs of incoming requests: the two routes, and the first one under the
\* server base path
RequestPaths ==
  { <<"/", "a", "/", "x">>, <<"/", "a", "/", "y">>,
    <<"/", "p", "/", "a", "/", "x">> }

\* every string of at most n characters over the alphabet of the paths
Chars == {"/", "a"}
Strings(n) == UNION { [1..k -> Chars] : k \in 0..n }

\* the configs the base-path rewrite is explored on: any base path that is
\* empty or starts with a slash, or none
RewriteConfigs ==
  { [basePath |-> bp, rewriteBasePath |-> rw] :
      bp \in {Undefined} \cup { s \in Strings(MaxLen) : s = <<>> \/ s[1] = "/" },
      rw \in BOOLEAN }

\* the pathnames of the requests sent to them
RewritePaths == { s \in Strings(MaxLen) : s # <<>> /\ s[1] = "/" }

\* the routers the joining of router and route path is explored on: one
\* route each; any router path that starts with a slash and any route path,
\* and the paths "/api", "/api/", "widgets" and "/widgets"
Api == <<"/", "a", "p", "i">>
Widgets == <<"w", "i", "d", "g", "e", "t", "s">>
JoinRouterPaths ==
  { <<"/">> \o s : s \in Strings(MaxLen - 1) } \cup { Api, Api \o <<"/">> }
JoinRoutePaths ==
  Strings(MaxLen) \cup { Widgets, <<"/">> \o Widgets }
JoinRouters ==
  { [path |-> rp,
     routes |-> { [method |-> "GET", path |-> q, authRequired |-> FALSE] }] :
      rp \in JoinRouterPaths, q \in JoinRoutePaths }

\* the status the base-path rewrite hook rejects with; the model's other
\* declining hooks use it too
RejectStatus == 404

\* the hook that setupBasePathRewrite installs (hooks registered through
\* the capability are numbered 1, 2, ... in registration order)
RewriteHook == 0

(* ------------------------------ state ---------------------------------- *)
VARIABLES
  server,             \* this.server: 0 is undefined, else index into listeners
  listeners,          \* every hapi Server created by createServer, in order; a start
                      \* (stop) call is suspended in `await this.server.start()`
                      \* (stop()) while the phase is "starting" ("stopping")
  registeredRouters,  \* this.registeredRouters
  authRegistered,     \* this.authRegistered
  basePathCache,      \* this.basePathCache, NoBasePath where the key is absent
  authState,          \* this.authState, NoAuthState where the key is absent
  authPromise,        \* the promise of registerAuth: "none", "pending", "rejected", "fulfilled"
  hookCount,          \* hooks registered so far through the capability
  hookLimit,          \* how many of them are explored (fixed by the initial state)
  req,                \* per request identity: its position in the pipeline
  authCalled,         \* history: registerAuth has been called, whatever the outcome
  authAccepted,       \* history: registerAuth calls that passed both guards (counted up to 2)
  provider            \* one authenticate call of the Kerberos provider: its inputs,
                      \* the backend it talks to, its position and its result

vars ==
  << server, listeners, registeredRouters, authRegistered, basePathCache,
     authState, authPromise, hookCount, hookLimit, req,
     authCalled, authAccepted, provider >>

\* the state of HttpServer
httpVars ==
  << server, listeners, registeredRouters, authRegistered, basePathCache,
     authState, authPromise, hookCount, hookLimit, req,
     authCalled, authAccepted >>

\* no authenticate call of the Kerberos provider is under way
NoProvider == [pc |-> "none"]


(* ----------------------------- helpers --------------------------------- *)
\* String.prototype.startsWith / endsWith on sequences of characters
StartsWith(s, p) == Len(p) <= Len(s) /\ SubSeq(s, 1, Len(p)) = p
EndsWith(s, p) == Len(p) <= Len(s) /\ SubSeq(s, Len(s) - Len(p) + 1, Len(s)) = p

\* v || '' for an optional string
OrEmpty(v) == IF v \in {Undefined, NoBasePath} THEN <<>> ELSE v

\* setupBasePathRewrite(config): the onRequest chain of a new listener
setupBasePathRewrite(config) ==
  IF config.basePath = Undefined \/ ~config.rewriteBasePath
    THEN <<>>
    ELSE <<RewriteHook>>

\* createServer(serverOptions) followed by setupBasePathRewrite(config):
\* a fresh hapi Server, not started, with no route and no auth scheme;
\* basePath is the constant the rewrite hook closes over
createServer(config) ==
  [basePath      |-> IF setupBasePathRewrite(config) = <<>> THEN Undefined
                     ELSE config.basePath,
   phase         |-> "stopped",
   onRequest     |-> setupBasePathRewrite(config),
   onPostAuth    |-> <<>>,
   onPreResponse |-> <<>>,
   routes        |-> {},
   scheme        |-> FALSE]

\* A hapi Server that HttpServer no longer references can be neither
\* registered on nor started or stopped again; requests are sent to the
\* listener that HttpServer references.  Once no request is in flight on
\* it, only the phase of such a server matters: the rest of its record is
\* dropped.
Collected == createServer([basePath |-> Undefined, rewriteBasePath |-> FALSE])

Collect(ls, srv, rq) ==
  [l \in DOMAIN ls |->
     IF l # srv /\ (\A r \in DOMAIN rq : rq[r].listener = l => rq[r].phase = "done")
       THEN [Collected EXCEPT !.phase = ls[l].phase]
       ELSE ls[l]]

\* the HttpServerSetup object exists once setup has returned: the
\* registration methods are private and reachable only through it
hasCapability == Len(listeners) > 0

isListening ==
  server # 0 /\ listeners[server].phase = "started"

getRouteFullPath_AlwaysSlice(routerPath, routePath) ==
  LET routePathStartIndex == IF StartsWith(routePath, <<"/">>) THEN 1 ELSE 0
  IN  routerPath \o SubSeq(routePath, routePathStartIndex + 1, Len(routePath))

getRouteFullPath(routerPath, routePath) ==
  LET routePathStartIndex ==
        IF EndsWith(routerPath, <<"/">>) /\ StartsWith(routePath, <<"/">>) THEN 1 ELSE 0
  IN  routerPath \o SubSeq(routePath, routePathStartIndex + 1, Len(routePath))

\* the argument of one this.server.route(...) call of start
RouteBinding_IgnoreAuthRegistered(router, route) ==
  LET isAuthRequired == route.authRequired
  IN  [method  |-> route.method,
       path    |-> getRouteFullPath(router.path, route.path),
       handler |-> <<router.path, route.path>>,
       auth    |-> IF isAuthRequired THEN "undefined" ELSE "false"]

RouteBinding(router, route) ==
  LET isAuthRequired == authRegistered /\ route.authRequired
  IN  [method  |-> route.method,
       path    |-> getRouteFullPath(router.path, route.path),
       handler |-> <<router.path, route.path>>,
       auth    |-> IF isAuthRequired THEN "undefined" ELSE "false"]

\* everything the two nested loops of start hand to this.server.route
RouteBindings ==
  UNION { { RouteBinding(router, route) : route \in router.routes } :
          router \in registeredRouters }

getBasePathFor_RequestFirst(config, r) ==
  OrEmpty(basePathCache[r]) \o OrEmpty(config.basePath)

\* getBasePathFor(request), bound to the config of setup: a read, so it
\* is an operator on the state and no step
getBasePathFor(config, r) ==
  LET requestScopePath == OrEmpty(basePathCache[r])
      serverBasePath   == OrEmpty(config.basePath)
  IN  serverBasePath \o requestScopePath

getAuthData_Truthy(r) ==
  LET hasState == authState[r] \notin {NoAuthState, "undefined"}
      state    == IF hasState THEN authState[r] ELSE "undefined"
      status   == IF hasState THEN "authenticated"
                  ELSE IF authRegistered THEN "unauthenticated"
                  ELSE "unknown"
  IN  [status |-> status, state |-> state]

getAuthData(r) ==
  LET hasState == authState[r] # NoAuthState
      state    == IF hasState THEN authState[r] ELSE "undefined"
      status   == IF hasState THEN "authenticated"
                  ELSE IF authRegistered THEN "unauthenticated"
                  ELSE "unknown"
  IN  [status |-> status, state |-> state]

isAuthenticated(r) == getAuthData(r).status = "authenticated"

(* ---------------- the error each call throws ("" = none) --------------- *)
\* setup(config) has no guard
setupError == ""

registerRouterError ==
  IF isListening
    THEN "Routers can be registered only when HTTP server is stopped."
    ELSE ""

startError_OnlyBeforeSetup ==
  IF Len(listeners) = 0 THEN "Http server is not setup up yet" ELSE ""

startError ==
  IF server = 0 THEN "Http server is not setup up yet" ELSE ""

stopError_RequiresStarted ==
  IF server = 0 \/ listeners[server].phase # "started"
    THEN "Cannot stop server while in stopped phase"
    ELSE ""

\* stop() returns at once without a server; hapi refuses to stop a server
\* that is starting or stopping
stopError ==
  IF server # 0 /\ listeners[server].phase \in {"starting", "stopping"}
    THEN "Cannot stop server while in " \o listeners[server].phase \o " phase"
    ELSE ""

registerOnPreAuthError == IF server = 0 THEN "Server is not created yet" ELSE ""
registerOnPostAuthError == IF server = 0 THEN "Server is not created yet" ELSE ""
registerOnPreResponseError == IF server = 0 THEN "Server is not created yet" ELSE ""

registerAuthError_NoSlotCheck ==
  IF server = 0 THEN "Server is not created yet" ELSE ""

registerAuthError ==
  IF server = 0 THEN "Server is not created yet"
  ELSE IF authRegistered THEN "Auth interceptor was already registered"
  ELSE ""

setBasePathForError_Truthy(r) ==
  IF basePathCache[r] \notin {NoBasePath, <<>>}
    THEN "Request basePath was previously set. Setting multiple times is not supported."
    ELSE ""

setBasePathForError(r) ==
  IF basePathCache[r] # NoBasePath
    THEN "Request basePath was previously set. Setting multiple times is not supported."
    ELSE ""

(* ------------------------------ Init ----------------------------------- *)
NewRequest ==
  [phase |-> "new", listener |-> 0, path |-> <<>>, idx |-> 0, trace |-> <<>>,
   status |-> 0, authResult |-> "none"]

Init ==
  /\ server = 0
  /\ listeners = <<>>
  /\ registeredRouters = {}
  /\ authRegistered = FALSE
  /\ basePathCache = [r \in Requests |-> NoBasePath]
  /\ authState = [r \in Requests |-> NoAuthState]
  /\ authPromise = "none"
  /\ hookCount = 0
  /\ hookLimit = 0
  /\ provider = NoProvider
  /\ req = [r \in Requests |-> NewRequest]
  /\ authCalled = FALSE
  /\ authAccepted = 0

(* ------------------------- lifecycle operations ------------------------ *)
reqVars == << basePathCache, authState, req >>
histVars == << authCalled, authAccepted >>
asyncVars == << authPromise >>

\* setup(config): creates a listener and makes it this.server
Setup ==
  \E config \in Configs :
    /\ setupError = ""
    /\ Len(listeners) < MaxListeners
    /\ server' = Len(listeners) + 1
    /\ listeners' = Collect(Append(listeners, createServer(config)), server', req)
    /\ UNCHANGED << registeredRouters, authRegistered, hookCount, hookLimit, provider, asyncVars,
                    reqVars, histVars >>

RegisterRouter_NoGuard ==
  \E router \in Routers :
    /\ hasCapability
    /\ registeredRouters' = registeredRouters \cup {router}
    /\ UNCHANGED << server, listeners, authRegistered, hookCount, hookLimit, provider, asyncVars,
                    reqVars, histVars >>

\* registerRouter(router)
RegisterRouter ==
  \E router \in Routers :
    /\ hasCapability
    /\ registerRouterError = ""
    /\ registeredRouters' = registeredRouters \cup {router}
    /\ UNCHANGED << server, listeners, authRegistered, hookCount, hookLimit, provider, asyncVars,
                    reqVars, histVars >>

\* hapi refuses a route whose method and path are already bound
RouteConflict ==
  \E b \in RouteBindings : \E o \in listeners[server].routes :
    o.method = b.method /\ o.path = b.path

\* start(config), up to `await this.server.start()`.  The routes are bound
\* first; hapi then refuses to start a server that is starting or stopping,
\* and starting a started server completes without effect.
Start ==
  /\ startError = ""
  /\ ~RouteConflict
  /\ listeners' = [listeners EXCEPT
                     ![server].routes = @ \cup RouteBindings,
                     ![server].phase = IF @ = "stopped" THEN "starting" ELSE @]
  /\ UNCHANGED << server, registeredRouters, authRegistered, hookCount, hookLimit, provider,
                  asyncVars, reqVars, histVars >>

\* start(config), from the completion of `await this.server.start()`:
\* the listener accepts connections
StartDone ==
  \E l \in DOMAIN listeners :
    /\ listeners[l].phase = "starting"
    /\ listeners' = [listeners EXCEPT ![l].phase = "started"]
    /\ UNCHANGED << server, registeredRouters, authRegistered, hookCount, hookLimit, provider,
                    asyncVars, reqVars, histVars >>

\* stop(), up to `await this.server.stop()`: returns at once when there is
\* no server; hapi refuses to stop a server that is starting or stopping
Stop ==
  /\ server # 0
  /\ stopError = ""
  /\ listeners' = [listeners EXCEPT ![server].phase = "stopping"]
  /\ UNCHANGED << server, registeredRouters, authRegistered, hookCount, hookLimit, provider,
                  asyncVars, reqVars, histVars >>

StopDone_ResetAuth ==
  \E l \in DOMAIN listeners :
    /\ listeners[l].phase = "stopping"
    /\ \A r \in Requests : req[r].listener = l => req[r].phase = "done"
    /\ server' = 0
    /\ authRegistered' = FALSE
    /\ listeners' = Collect([listeners EXCEPT ![l].phase = "stopped"], server', req)
    /\ UNCHANGED << registeredRouters, hookCount, hookLimit, provider,
                    asyncVars, reqVars, histVars >>

\* stop(), from the completion of `await this.server.stop()`, which hapi
\* completes once the requests in flight on the listener are answered
StopDone ==
  \E l \in DOMAIN listeners :
    /\ listeners[l].phase = "stopping"
    /\ \A r \in Requests : req[r].listener = l => req[r].phase = "done"
    /\ server' = 0
    /\ listeners' = Collect([listeners EXCEPT ![l].phase = "stopped"], server', req)
    /\ UNCHANGED << registeredRouters, authRegistered, hookCount, hookLimit, provider,
                    asyncVars, reqVars, histVars >>

(* ------------------------ registration operations ---------------------- *)
ext_Prepend(chain, hook) == <<hook>> \o chain

\* this.server.ext(extPoint, handler): the handler goes to the end of the
\* chain of the extension point
ext(chain, hook) == Append(chain, hook)

RegisterOnPreAuth ==
  /\ registerOnPreAuthError = ""
  /\ hookCount < hookLimit
  /\ hookCount' = hookCount + 1
  /\ listeners' = [listeners EXCEPT ![server].onRequest = ext(@, hookCount')]
  /\ UNCHANGED << server, registeredRouters, authRegistered, hookLimit, provider, asyncVars,
                  reqVars, histVars >>

RegisterOnPostAuth_WrongChain ==
  /\ registerOnPostAuthError = ""
  /\ hookCount < hookLimit
  /\ hookCount' = hookCount + 1
  /\ listeners' = [listeners EXCEPT ![server].onRequest = ext(@, hookCount')]
  /\ UNCHANGED << server, registeredRouters, authRegistered, hookLimit, provider, asyncVars,
                  reqVars, histVars >>

RegisterOnPostAuth ==
  /\ registerOnPostAuthError = ""
  /\ hookCount < hookLimit
  /\ hookCount' = hookCount + 1
  /\ listeners' = [listeners EXCEPT ![server].onPostAuth = ext(@, hookCount')]
  /\ UNCHANGED << server, registeredRouters, authRegistered, hookLimit, provider, asyncVars,
                  reqVars, histVars >>

RegisterOnPreResponse ==
  /\ registerOnPreResponseError = ""
  /\ hookCount < hookLimit
  /\ hookCount' = hookCount + 1
  /\ listeners' = [listeners EXCEPT ![server].onPreResponse = ext(@, hookCount')]
  /\ UNCHANGED << server, registeredRouters, authRegistered, hookLimit, provider, asyncVars,
                  reqVars, histVars >>

RegisterAuth_NoFlag ==
  /\ registerAuthError = ""
  /\ authPromise' = "pending"
  /\ authCalled' = TRUE
  /\ authAccepted' = IF authAccepted < 2 THEN authAccepted + 1 ELSE authAccepted
  /\ UNCHANGED << server, listeners, registeredRouters, authRegistered, hookCount,
                  hookLimit, provider, reqVars >>

\* registerAuth(fn, cookieOptions, basePath), up to
\* `await createCookieSessionStorageFactory(...)`
RegisterAuth ==
  /\ registerAuthError = ""
  /\ authRegistered' = TRUE
  /\ authPromise' = "pending"
  /\ authCalled' = TRUE
  /\ authAccepted' = IF authAccepted < 2 THEN authAccepted + 1 ELSE authAccepted
  /\ UNCHANGED << server, listeners, registeredRouters, hookCount, hookLimit, provider, reqVars >>

\* a registerAuth call that throws at one of its two guards
RegisterAuthRejected ==
  /\ hasCapability
  /\ registerAuthError # ""
  /\ ~authCalled
  /\ authCalled' = TRUE
  /\ UNCHANGED << server, listeners, registeredRouters, authRegistered, hookCount, hookLimit, provider,
                  asyncVars, reqVars, authAccepted >>

\* registerAuth from the completion of the await: the session storage
\* factory failed, or this.server is gone, or the scheme, the strategy and
\* the default are installed on what this.server is now
RegisterAuthDone ==
  \E created \in BOOLEAN :
    /\ authPromise = "pending"
    /\ IF created /\ server # 0
         THEN /\ listeners' = [listeners EXCEPT ![server].scheme = TRUE]
              /\ authPromise' = "fulfilled"
         ELSE /\ authPromise' = "rejected"
              /\ UNCHANGED listeners
    /\ UNCHANGED << server, registeredRouters, authRegistered, hookCount, hookLimit, provider,
                    reqVars, histVars >>

SetBasePathFor_WrongMap ==
  \E r \in Requests, basePath \in BasePaths :
    /\ req[r].phase # "new"
    /\ setBasePathForError(r) = ""
    /\ basePathCache' = [basePathCache EXCEPT ![r] = basePath]
    /\ authState' = [authState EXCEPT ![r] = NoAuthState]
    /\ UNCHANGED << server, listeners, registeredRouters, authRegistered,
                    hookCount, hookLimit, provider, asyncVars, req, histVars >>

\* setBasePathFor(request, basePath), on a request that has arrived
SetBasePathFor ==
  \E r \in Requests, basePath \in BasePaths :
    /\ req[r].phase # "new"
    /\ setBasePathForError(r) = ""
    /\ basePathCache' = [basePathCache EXCEPT ![r] = basePath]
    /\ UNCHANGED << server, listeners, registeredRouters, authRegistered,
                    hookCount, hookLimit, provider, asyncVars, authState, req, histVars >>

(* --------------------------- request pipeline -------------------------- *)
lifeVars == << server, registeredRouters, authRegistered, hookCount, hookLimit, provider, asyncVars,
               histVars >>

RewriteResult_PassThrough(basePath, pathname) ==
  IF StartsWith(pathname, basePath)
    THEN LET rest == SubSeq(pathname, Len(basePath) + 1, Len(pathname))
         IN  [res |-> "forwarded", url |-> IF rest = <<>> THEN <<"/">> ELSE rest]
    ELSE [res |-> "next", url |-> pathname]

RewriteResult_NoSlashFallback(basePath, pathname) ==
  IF StartsWith(pathname, basePath)
    THEN [res |-> "forwarded",
          url |-> SubSeq(pathname, Len(basePath) + 1, Len(pathname))]
    ELSE [res |-> "rejected", url |-> pathname]

\* the handler setupBasePathRewrite registers: the result for a pathname.
\* pathname.replace(basePath, '') removes the first occurrence, which is
\* the prefix because startsWith held; an empty remainder becomes "/".
RewriteResult(basePath, pathname) ==
  IF StartsWith(pathname, basePath)
    THEN LET rest == SubSeq(pathname, Len(basePath) + 1, Len(pathname))
         IN  [res |-> "forwarded", url |-> IF rest = <<>> THEN <<"/">> ELSE rest]
    ELSE [res |-> "rejected", url |-> pathname]

\* what a hook registered through the capability may return
HookResults == {"next", "rejected", "redirected"}

\* what the authentication handler may return
AuthResults == {"authenticated", "unauthenticated", "redirected"}

Event(extPoint, hook, res) == [ext |-> extPoint, hook |-> hook, res |-> res]

NextPhase_ReAuth(extPoint) ==
  CASE extPoint = "onRequest"     -> "auth"
    [] extPoint = "onPostAuth"    -> "auth"
    [] extPoint = "onPreResponse" -> "done"

NextPhase(extPoint) ==
  CASE extPoint = "onRequest"     -> "auth"
    [] extPoint = "onPostAuth"    -> "handler"
    [] extPoint = "onPreResponse" -> "done"

\* a request that stands at the end of an extension point's chain moves on
\* to the next phase of the pipeline
Advance(q) ==
  IF q.phase \in {"onRequest", "onPostAuth", "onPreResponse"}
       /\ q.idx > Len(listeners[q.listener][q.phase])
    THEN [q EXCEPT !.phase = NextPhase(q.phase), !.idx = 1]
    ELSE q

\* a request reaches the listener while it accepts connections (request
\* identities are used in order: they are interchangeable)
Arrive ==
  \E r \in Requests, path \in RequestPaths :
    /\ req[r].phase = "new"
    /\ \A o \in Requests : o < r => req[o].phase # "new"
    /\ isListening
    /\ req' = [req EXCEPT ![r] = Advance([@ EXCEPT !.phase = "onRequest", !.listener = server,
                                                    !.path = path, !.idx = 1])]
    /\ UNCHANGED << lifeVars, listeners, basePathCache, authState >>

ChainStep_RejectContinues(q, extPoint, res) ==
  LET l     == listeners[q.listener]
      hook  == l[extPoint][q.idx]
      out   == IF hook = RewriteHook
                 THEN RewriteResult(l.basePath, q.path)
                 ELSE [res |-> res, url |-> q.path]
      seen  == Append(q.trace, Event(extPoint, hook, out.res))
  IN  CASE out.res \in {"next", "rejected"} ->
             Advance([q EXCEPT !.idx = @ + 1, !.trace = seen,
                               !.status = IF out.res = "rejected" THEN RejectStatus ELSE @])
        [] out.res = "forwarded" ->
             [q EXCEPT !.phase = NextPhase(extPoint), !.idx = 1,
                       !.path = out.url, !.trace = seen]
        [] out.res = "redirected" ->
             [q EXCEPT !.phase = "done", !.status = 302, !.trace = seen]

ChainStep_RedirectContinues(q, extPoint, res) ==
  LET l     == listeners[q.listener]
      hook  == l[extPoint][q.idx]
      out   == IF hook = RewriteHook
                 THEN RewriteResult(l.basePath, q.path)
                 ELSE [res |-> res, url |-> q.path]
      seen  == Append(q.trace, Event(extPoint, hook, out.res))
  IN  CASE out.res \in {"next", "redirected"} ->
             Advance([q EXCEPT !.idx = @ + 1, !.trace = seen,
                               !.status = IF out.res = "redirected" THEN 302 ELSE @])
        [] out.res = "forwarded" ->
             [q EXCEPT !.phase = NextPhase(extPoint), !.idx = 1,
                       !.path = out.url, !.trace = seen]
        [] out.res = "rejected" ->
             [q EXCEPT !.phase = "done", !.status = RejectStatus, !.trace = seen]

\* the same, with the pathnames of RewritePaths
ArriveRewrite ==
  \E r \in Requests, path \in RewritePaths :
    /\ req[r].phase = "new"
    /\ \A o \in Requests : o < r => req[o].phase # "new"
    /\ isListening
    /\ req' = [req EXCEPT ![r] = Advance([@ EXCEPT !.phase = "onRequest", !.listener = server,
                                                    !.path = path, !.idx = 1])]
    /\ UNCHANGED << lifeVars, listeners, basePathCache, authState >>

\* one step of an extension point for request record q: the next handler
\* of the chain runs and returns res (the rewrite hook computes its own)
ChainStep(q, extPoint, res) ==
  LET l     == listeners[q.listener]
      hook  == l[extPoint][q.idx]
      out   == IF hook = RewriteHook
                 THEN RewriteResult(l.basePath, q.path)
                 ELSE [res |-> res, url |-> q.path]
      seen  == Append(q.trace, Event(extPoint, hook, out.res))
  IN  CASE out.res = "next" ->
             Advance([q EXCEPT !.idx = @ + 1, !.trace = seen])
        [] out.res = "forwarded" ->
             [q EXCEPT !.phase = NextPhase(extPoint), !.idx = 1,
                       !.path = out.url, !.trace = seen]
        [] out.res = "rejected" ->
             [q EXCEPT !.phase = "done", !.status = RejectStatus, !.trace = seen]
        [] out.res = "redirected" ->
             [q EXCEPT !.phase = "done", !.status = 302, !.trace = seen]

\* the results to explore for the handler request record q stands at
ResultsAt(q, extPoint) ==
  IF listeners[q.listener][extPoint][q.idx] = RewriteHook THEN {"next"} ELSE HookResults

OnPreAuthStep ==
  \E r \in Requests :
    /\ req[r].phase = "onRequest"
    /\ \E res \in ResultsAt(req[r], "onRequest") :
         req' = [req EXCEPT ![r] = ChainStep(@, "onRequest", res)]
    /\ UNCHANGED << lifeVars, listeners, basePathCache, authState >>

OnPostAuthStep ==
  \E r \in Requests :
    /\ req[r].phase = "onPostAuth"
    /\ \E res \in ResultsAt(req[r], "onPostAuth") :
         req' = [req EXCEPT ![r] = ChainStep(@, "onPostAuth", res)]
    /\ UNCHANGED << lifeVars, listeners, basePathCache, authState >>

OnPreResponseStep ==
  \E r \in Requests :
    /\ req[r].phase = "onPreResponse"
    /\ \E res \in ResultsAt(req[r], "onPreResponse") :
         req' = [req EXCEPT ![r] = ChainStep(@, "onPreResponse", res)]
    /\ UNCHANGED << lifeVars, listeners, basePathCache, authState >>

onSuccess_StateOnly(r, state) ==
  IF state = "undefined" THEN authState ELSE [authState EXCEPT ![r] = state]

\* the callback registerAuth hands to adoptToHapiAuthFormat
onSuccess(r, state) == [authState EXCEPT ![r] = state]

\* routing and authentication: the route bound for the path is looked up;
\* the scheme runs when the route takes the default strategy and the
\* listener has one, otherwise the request passes without authentication
AuthStep ==
  \E r \in Requests, result \in AuthResults, state \in AuthStates :
    /\ req[r].phase = "auth"
    /\ LET q      == req[r]
           l      == listeners[q.listener]
           bound  == { b \in l.routes : b.path = q.path }
           enforced == \E b \in bound : b.auth = "undefined" /\ l.scheme
       IN  IF bound = {}
             THEN /\ result = "unauthenticated" /\ state = "undefined"
                  /\ req' = [req EXCEPT ![r] = [q EXCEPT !.phase = "done", !.status = RejectStatus]]
                  /\ UNCHANGED authState
             ELSE IF ~enforced
             THEN /\ result = "unauthenticated" /\ state = "undefined"
                  /\ req' = [req EXCEPT ![r] = Advance([q EXCEPT !.phase = "onPostAuth", !.idx = 1])]
                  /\ UNCHANGED authState
             ELSE LET seen == Append(q.trace, Event("auth", RewriteHook, result))
                  IN  IF result = "authenticated"
                        THEN /\ authState' = onSuccess(r, state)
                             /\ req' = [req EXCEPT ![r] =
                                          Advance([q EXCEPT !.phase = "onPostAuth", !.idx = 1,
                                                            !.trace = seen, !.authResult = result])]
                        ELSE /\ state = "undefined"
                             /\ UNCHANGED authState
                             /\ req' = [req EXCEPT ![r] =
                                          [q EXCEPT !.phase = "done",
                                                    !.status = IF result = "redirected" THEN 302 ELSE 401,
                                                    !.trace = seen, !.authResult = result]]
    /\ UNCHANGED << lifeVars, listeners, basePathCache >>

HandlerStep_SkipsPreResponse ==
  \E r \in Requests :
    /\ req[r].phase = "handler"
    /\ req' = [req EXCEPT ![r] = [@ EXCEPT !.phase = "done", !.status = 200,
                                           !.trace = Append(@, Event("handler", RewriteHook, "next"))]]
    /\ UNCHANGED << lifeVars, listeners, basePathCache, authState >>

\* the route handler runs
HandlerStep ==
  \E r \in Requests :
    /\ req[r].phase = "handler"
    /\ req' = [req EXCEPT ![r] = Advance([@ EXCEPT !.phase = "onPreResponse", !.idx = 1,
                                                    !.status = 200,
                                                    !.trace = Append(@, Event("handler", RewriteHook, "next"))])]
    /\ UNCHANGED << lifeVars, listeners, basePathCache, authState >>

(* ------------------- Kerberos authentication provider ------------------ *)
\* provider.authenticate(request, state), as its test suite pins it down.
\* The request carries no authorization header or one of three schemes;
\* the state is null or a token pair.
Schemes == {"none", "Basic", "Bearer", "Negotiate"}
ProviderStates == {"null", "tokenPair"}

\* The backend stub of one test: what it answers
\*   header    to shield.authenticate with the Bearer token of the request,
\*   state     to shield.authenticate with the access token of the state,
\*   refresh   to tokens.refresh with the refresh token of the state (a
\*             refreshed access token is accepted by shield.authenticate),
\*   probe     to shield.authenticate with the fake Negotiate header,
\*   exchange  to shield.getAccessToken with the SPNEGO ticket,
\*   exchanged to shield.authenticate with the token got in exchange.
AllBackends ==
  [header    : {"user", "unauthorized"},
   state     : {"user", "unauthorized", "tokenMissing", "internalError"},
   refresh   : {"tokenPair", "null"},
   probe     : {"user", "unauthorized", "negotiate", "unavailable"},
   exchange  : {"tokenPair", "unauthorized"},
   exchanged : {"user", "unauthorized"}]

\* the access token of the state is rejected as expired
Expired(answer) == answer \in {"unauthorized", "tokenMissing"}

\* The suite stubs a backend that has rejected the tokens of a state to
\* reject the Negotiate probe as unauthorized as well, with or without a
\* Negotiate challenge.
Backends ==
  { b \in AllBackends :
      (Expired(b.state) /\ b.refresh = "null") => b.probe \in {"unauthorized", "negotiate"} }

\* AuthenticationResult
NotHandled ==
  [kind |-> "notHandled", error |-> "none", challenges |-> <<>>, state |-> "undefined"]
Succeeded(state) ==
  [kind |-> "succeeded", error |-> "none", challenges |-> <<>>, state |-> state]
Failed(error, challenges) ==
  [kind |-> "failed", error |-> error, challenges |-> challenges, state |-> "undefined"]

\* the status code of the error of a failed result
StatusCode(error) ==
  CASE error \in {"unauthorized", "Boom.unauthorized"} -> 401
    [] error = "internalError" -> 500
    [] error = "unavailable" -> 503
    [] OTHER -> 0

\* the calls of authenticate the suite makes
ProviderStarts ==
  { [pc |-> "authenticate", scheme |-> scheme, state |-> state, backend |-> b,
     result |-> NotHandled, authenticateCalls |-> 0, refreshCalls |-> 0,
     getAccessTokenCalls |-> 0] :
    scheme \in Schemes, state \in ProviderStates, b \in Backends }

Finish(result) == [provider EXCEPT !.pc = "done", !.result = result]

Authenticate_StateFirst ==
  /\ provider.pc = "authenticate"
  /\ provider' =
       IF provider.state # "null" THEN [provider EXCEPT !.pc = "state"]
       ELSE CASE provider.scheme = "Basic"     -> Finish(NotHandled)
              [] provider.scheme = "Bearer"    -> [provider EXCEPT !.pc = "header"]
              [] provider.scheme = "Negotiate" -> [provider EXCEPT !.pc = "exchange"]
              [] provider.scheme = "none"      -> [provider EXCEPT !.pc = "probe"]
  /\ UNCHANGED httpVars

\* authenticate, up to its first call of the backend: a header of an
\* unsupported scheme is not handled, a header of a supported scheme is
\* authenticated on its own, and the state is used when there is no header
Authenticate ==
  /\ provider.pc = "authenticate"
  /\ provider' =
       CASE provider.scheme = "Basic"     -> Finish(NotHandled)
         [] provider.scheme = "Bearer"    -> [provider EXCEPT !.pc = "header"]
         [] provider.scheme = "Negotiate" -> [provider EXCEPT !.pc = "exchange"]
         [] provider.scheme = "none"      ->
              IF provider.state # "null"
                THEN [provider EXCEPT !.pc = "state"]
                ELSE [provider EXCEPT !.pc = "probe"]
  /\ UNCHANGED httpVars

\* shield.authenticate with the Bearer token of the request
ShieldAuthenticateHeader ==
  /\ provider.pc = "header"
  /\ LET answer == provider.backend.header
         called == [provider EXCEPT !.authenticateCalls = @ + 1]
     IN  provider' =
           [called EXCEPT !.pc = "done",
                          !.result = IF answer = "user" THEN Succeeded("undefined")
                                     ELSE Failed(answer, <<>>)]
  /\ UNCHANGED httpVars

\* shield.getAccessToken with the SPNEGO ticket of the request, then
\* shield.authenticate with the access token got in exchange
ShieldGetAccessToken ==
  /\ provider.pc = "exchange"
  /\ LET b      == provider.backend
         called == [provider EXCEPT !.getAccessTokenCalls = @ + 1]
     IN  provider' =
           IF b.exchange # "tokenPair"
             THEN [called EXCEPT !.pc = "done", !.result = Failed(b.exchange, <<>>)]
             ELSE [called EXCEPT !.pc = "done", !.authenticateCalls = @ + 1,
                                 !.result = IF b.exchanged = "user"
                                              THEN Succeeded("exchangedPair")
                                              ELSE Failed(b.exchanged, <<>>)]
  /\ UNCHANGED httpVars

\* shield.authenticate with the access token of the state
ShieldAuthenticateState ==
  /\ provider.pc = "state"
  /\ LET answer == provider.backend.state
         called == [provider EXCEPT !.authenticateCalls = @ + 1]
     IN  provider' =
           IF answer = "user" THEN [called EXCEPT !.pc = "done", !.result = Succeeded("undefined")]
           ELSE IF Expired(answer) THEN [called EXCEPT !.pc = "refresh"]
           ELSE [called EXCEPT !.pc = "done", !.result = Failed(answer, <<>>)]
  /\ UNCHANGED httpVars

TokensRefresh_Retry ==
  /\ provider.pc = "refresh"
  /\ provider.refreshCalls < 3
  /\ LET called == [provider EXCEPT !.refreshCalls = @ + 1]
     IN  provider' =
           IF provider.backend.refresh = "tokenPair"
             THEN [called EXCEPT !.pc = "done", !.authenticateCalls = @ + 1,
                                 !.result = Succeeded("refreshedPair")]
             ELSE called
  /\ UNCHANGED httpVars

\* tokens.refresh with the refresh token of the state, then
\* shield.authenticate with the refreshed access token; without a new
\* pair the provider goes on to the Negotiate probe
TokensRefresh ==
  /\ provider.pc = "refresh"
  /\ LET called == [provider EXCEPT !.refreshCalls = @ + 1]
     IN  provider' =
           IF provider.backend.refresh = "tokenPair"
             THEN [called EXCEPT !.pc = "done", !.authenticateCalls = @ + 1,
                                 !.result = Succeeded("refreshedPair")]
             ELSE [called EXCEPT !.pc = "probe"]
  /\ UNCHANGED httpVars

\* shield.authenticate with the fake Negotiate header
ShieldAuthenticateProbe ==
  /\ provider.pc = "probe"
  /\ LET answer == provider.backend.probe
         called == [provider EXCEPT !.authenticateCalls = @ + 1]
     IN  provider' =
           [called EXCEPT
              !.pc = "done",
              !.result =
                CASE answer = "user"         -> NotHandled
                  [] answer = "unavailable"  -> Failed(answer, <<>>)
                  [] answer = "negotiate"    -> Failed("Boom.unauthorized", <<"Negotiate">>)
                  [] answer = "unauthorized" ->
                       IF provider.state # "null"
                         THEN Failed("Boom.unauthorized", <<>>)
                         ELSE NotHandled]
  /\ UNCHANGED httpVars

(* --------------------------- specifications ---------------------------- *)
\* Spec: the lifecycle of the server over several setup / start / stop
\* cycles, with routers and the authentication handler registered at any
\* point of it and requests served by the listeners it creates.  The only
\* hook is the one setup installs for the base path.
Next ==
  \/ Setup
  \/ Start
  \/ StartDone
  \/ Stop
  \/ StopDone
  \/ RegisterRouter
  \/ RegisterAuth
  \/ RegisterAuthRejected
  \/ RegisterAuthDone
  \/ Arrive
  \/ OnPreAuthStep
  \/ AuthStep
  \/ HandlerStep

Spec == Init /\ [][Next]_vars

\* the state setup(config) leaves a new HttpServer in, with `hooks` hooks
\* to be registered
Configured(hooks) ==
  \E config \in Configs :
    /\ server = 1
    /\ listeners = << createServer(config) >>
    /\ registeredRouters = {}
    /\ authRegistered = FALSE
    /\ basePathCache = [r \in Requests |-> NoBasePath]
    /\ authState = [r \in Requests |-> NoAuthState]
    /\ authPromise = "none"
    /\ hookCount = 0
    /\ hookLimit = hooks
    /\ provider = NoProvider
    /\ req = [r \in Requests |-> NewRequest]
    /\ authCalled = FALSE
    /\ authAccepted = 0

\* SpecReq: the requests served by one server.  From the state after
\* setup(config) the collaborators register their routers, hooks and
\* authentication handler, the server starts, and requests run through
\* the pipeline.
InitReq == Configured(MaxHooks)

NextReq ==
  \/ Start
  \/ StartDone
  \/ RegisterRouter
  \/ RegisterOnPreAuth
  \/ RegisterOnPostAuth
  \/ RegisterOnPreResponse
  \/ RegisterAuth
  \/ RegisterAuthDone
  \/ Arrive
  \/ OnPreAuthStep
  \/ AuthStep
  \/ OnPostAuthStep
  \/ HandlerStep
  \/ OnPreResponseStep

SpecReq == InitReq /\ [][NextReq]_vars

\* SpecBasePath: the base path of the requests served by one server.  As
\* SpecReq, without registered hooks (the rewrite hook of setup apart), and
\* with setBasePathFor called on the requests that have arrived.
InitBasePath == Configured(0)

NextBasePath ==
  \/ Start
  \/ StartDone
  \/ RegisterRouter
  \/ RegisterAuth
  \/ RegisterAuthDone
  \/ SetBasePathFor
  \/ Arrive
  \/ OnPreAuthStep
  \/ AuthStep
  \/ HandlerStep

SpecBasePath == InitBasePath /\ [][NextBasePath]_vars

\* the state setup(config) leaves a new HttpServer in, for the configs of
\* a given set
ConfiguredWith(configs, hooks) ==
  \E config \in configs :
    /\ server = 1
    /\ listeners = << createServer(config) >>
    /\ registeredRouters = {}
    /\ authRegistered = FALSE
    /\ basePathCache = [r \in Requests |-> NoBasePath]
    /\ authState = [r \in Requests |-> NoAuthState]
    /\ authPromise = "none"
    /\ hookCount = 0
    /\ hookLimit = hooks
    /\ provider = NoProvider
    /\ req = [r \in Requests |-> NewRequest]
    /\ authCalled = FALSE
    /\ authAccepted = 0

\* SpecRewrite: the base-path rewrite.  A server set up with any config of
\* RewriteConfigs starts and receives requests for the pathnames of
\* RewritePaths; no router is registered, so that a request the hook lets
\* through ends at the routing step.
InitRewrite == ConfiguredWith(RewriteConfigs, 0)

NextRewrite ==
  \/ Start
  \/ StartDone
  \/ ArriveRewrite
  \/ OnPreAuthStep
  \/ AuthStep

SpecRewrite == InitRewrite /\ [][NextRewrite]_vars

\* SpecJoin: the paths start binds.  A server is set up and one router of
\* JoinRouters is registered; start binds its route.
InitJoin ==
  \E config \in Configs, router \in JoinRouters :
    /\ server = 1
    /\ listeners = << createServer(config) >>
    /\ registeredRouters = {router}
    /\ authRegistered = FALSE
    /\ basePathCache = [r \in Requests |-> NoBasePath]
    /\ authState = [r \in Requests |-> NoAuthState]
    /\ authPromise = "none"
    /\ hookCount = 0
    /\ hookLimit = 0
    /\ provider = NoProvider
    /\ req = [r \in Requests |-> NewRequest]
    /\ authCalled = FALSE
    /\ authAccepted = 0

NextJoin ==
  \/ Start
  \/ StartDone

SpecJoin == InitJoin /\ [][NextJoin]_vars

\* SpecLife: the lifecycle of the server over several setup / start / stop
\* cycles, with routers, hooks and the authentication handler registered
\* at any point of it, and no request.
InitLife ==
  /\ server = 0
  /\ listeners = <<>>
  /\ registeredRouters = {}
  /\ authRegistered = FALSE
  /\ basePathCache = [r \in Requests |-> NoBasePath]
  /\ authState = [r \in Requests |-> NoAuthState]
  /\ authPromise = "none"
  /\ hookCount = 0
  /\ hookLimit = MaxHooks
  /\ provider = NoProvider
  /\ req = [r \in Requests |-> NewRequest]
  /\ authCalled = FALSE
  /\ authAccepted = 0

NextLife ==
  \/ Setup
  \/ Start
  \/ StartDone
  \/ Stop
  \/ StopDone
  \/ RegisterRouter
  \/ RegisterOnPreAuth
  \/ RegisterOnPostAuth
  \/ RegisterOnPreResponse
  \/ RegisterAuth
  \/ RegisterAuthRejected
  \/ RegisterAuthDone

SpecLife == InitLife /\ [][NextLife]_vars

\* SpecKerberos: one authenticate call of the Kerberos provider, for every
\* header, state and backend of its test suite; HttpServer is not involved.
InitKerberos ==
  /\ server = 0
  /\ listeners = <<>>
  /\ registeredRouters = {}
  /\ authRegistered = FALSE
  /\ basePathCache = [r \in Requests |-> NoBasePath]
  /\ authState = [r \in Requests |-> NoAuthState]
  /\ authPromise = "none"
  /\ hookCount = 0
  /\ hookLimit = 0
  /\ req = [r \in Requests |-> NewRequest]
  /\ authCalled = FALSE
  /\ authAccepted = 0
  /\ provider \in ProviderStarts

NextKerberos ==
  \/ Authenticate
  \/ ShieldAuthenticateHeader
  \/ ShieldGetAccessToken
  \/ ShieldAuthenticateState
  \/ TokensRefresh
  \/ ShieldAuthenticateProbe

SpecKerberos == InitKerberos /\ [][NextKerberos]_vars

(* ------------------------------ properties ----------------------------- *)
\* C1 (as stated): once registerAuth has been called, whatever the outcome
\* of that call, every further registerAuth call fails.
C1_SecondCallFails == authCalled => registerAuthError # ""

\* C1 (amended): once a registerAuth call has been accepted, which takes a
\* listener to exist at the time of the call, every further registerAuth
\* call fails, whatever its arguments and whatever setup, start and stop
\* calls came in between.
C1_CallAfterAcceptedFails == authAccepted >= 1 => registerAuthError # ""

\* a second listener has been set up since the accepted call, and the call
\* still fails on the slot
C1_Witness ==
  /\ authAccepted = 1
  /\ server = 2
  /\ registerAuthError = "Auth interceptor was already registered"

\* C2: at most one registerAuth call is ever accepted, and the auth slot,
\* once registered, never goes back to unregistered, over every setup /
\* start / stop cycle.
C2_SlotSetAtMostOnce ==
  [][ /\ authRegistered => authRegistered'
      /\ authAccepted' <= 1
      /\ authRegistered' <=> (authAccepted' = 1) ]_vars

\* the slot is still registered after the listener it was registered on
\* was stopped and a second one set up and started
C2_Witness ==
  /\ authAccepted = 1
  /\ authRegistered
  /\ server = 2
  /\ listeners[2].phase = "started"

\* C3: while the listener of an earlier setup exists (no stop completed
\* since), no setup call creates another listener or replaces this.server.
C3_SecondSetupFails ==
  [][ server # 0 => /\ Len(listeners') = Len(listeners)
                    /\ server' \in {server, 0} ]_vars

\* C4: auth.get reports one of the three statuses for every request, and
\* it reports unknown exactly when no registerAuth call was ever accepted.
C4_UnknownIffNeverRegistered ==
  \A r \in Requests :
    /\ getAuthData(r).status \in {"authenticated", "unauthenticated", "unknown"}
    /\ getAuthData(r).status = "unknown" <=> authAccepted = 0

\* a request was served without a record while the scheme was registered
C4_Witness ==
  \E r \in Requests :
    /\ req[r].phase = "done"
    /\ req[r].status = 200
    /\ authPromise = "fulfilled"
    /\ getAuthData(r).status = "unauthenticated"

\* C5: while the server is listening every registerRouter call fails, and
\* the set of registered routers does not change.
C5_NoRouterWhileListening ==
  /\ [](isListening => registerRouterError # "")
  /\ [][isListening => registeredRouters' = registeredRouters]_vars

\* the server listens with the router registered before start, and a
\* further call is refused
C5_Witness ==
  /\ isListening
  /\ registeredRouters = {RouterA}
  /\ registerRouterError = "Routers can be registered only when HTTP server is stopped."

\* C6: once a request has an override, every setBasePathFor call for it
\* fails and the override stays as it is, the empty string included.
C6_OverrideSetOnce ==
  /\ [](\A r \in Requests : basePathCache[r] # NoBasePath => setBasePathForError(r) # "")
  /\ [][\A r \in Requests :
          basePathCache[r] # NoBasePath => basePathCache'[r] = basePathCache[r]]_vars

\* the override of a request is the empty string and a further call fails
C6_Witness ==
  \E r \in Requests :
    /\ basePathCache[r] = <<>>
    /\ setBasePathForError(r) # ""

\* the route of the registered routers that a binding was made from
\* requires authentication
AuthRequiredOf(b) ==
  \E router \in Routers : \E route \in router.routes :
    /\ b.handler = <<router.path, route.path>>
    /\ route.authRequired

\* C7: start binds a route with authentication enforced exactly when the
\* route requires authentication and the auth slot is registered at that
\* time; the authentication handler runs only for requests to a route
\* bound that way.
C7_EnforcedIffRequiredAndRegistered ==
  [][ /\ \A l \in DOMAIN listeners :
           \A b \in listeners'[l].routes \ listeners[l].routes :
             b.auth = "undefined" <=> (AuthRequiredOf(b) /\ authRegistered)
      /\ \A r \in Requests :
           (req[r].authResult = "none" /\ req'[r].authResult # "none") =>
             \E b \in listeners[req[r].listener].routes :
               b.path = req[r].path /\ b.auth = "undefined" ]_vars

\* one listener has the route that requires authentication bound enforced
\* and the other route bound to bypass
C7_Witness ==
  \E l \in DOMAIN listeners :
    /\ \E b \in listeners[l].routes : AuthRequiredOf(b) /\ b.auth = "undefined"
    /\ \E b \in listeners[l].routes : ~AuthRequiredOf(b) /\ b.auth = "false"

\* C8: auth.get reports authenticated exactly when a record exists for the
\* request; else unauthenticated when the slot is registered, else
\* unknown; the state it returns is the recorded one, undefined without a
\* record.
C8_Precedence ==
  \A r \in Requests :
    LET d == getAuthData(r)
    IN  IF authState[r] # NoAuthState
          THEN d.status = "authenticated" /\ d.state = authState[r]
          ELSE /\ d.state = "undefined"
               /\ d.status = IF authRegistered THEN "unauthenticated" ELSE "unknown"

\* a request has a record that carries no state, and is authenticated
C8_Witness ==
  \E r \in Requests :
    /\ authState[r] = "undefined"
    /\ authRegistered
    /\ getAuthData(r) = [status |-> "authenticated", state |-> "undefined"]

\* C9: isAuthenticated holds for a request exactly when the authentication
\* handler returned an authenticated result for that request, with or
\* without state.
C9_AuthenticatedIffHandlerSaidSo ==
  \A r \in Requests : isAuthenticated(r) <=> req[r].authResult = "authenticated"

\* the handler authenticated a request without state
C9_Witness ==
  \E r \in Requests :
    /\ req[r].authResult = "authenticated"
    /\ authState[r] = "undefined"
    /\ isAuthenticated(r)

\* the hooks of one extension point that have run for request r, in the
\* order they ran
Invoked(r, extPoint) ==
  LET evs == SelectSeq(req[r].trace, LAMBDA e : e.ext = extPoint)
  IN  [i \in 1..Len(evs) |-> evs[i].hook]

ExtPoints == {"onRequest", "onPostAuth", "onPreResponse"}

\* C10: each chain holds its hooks in registration order, and the hooks
\* that run for a request at an extension point are the first ones of the
\* chain, in that order.
C10_RegistrationOrder ==
  /\ \A l \in DOMAIN listeners : \A e \in ExtPoints :
       \A i, j \in DOMAIN listeners[l][e] : i < j => listeners[l][e][i] < listeners[l][e][j]
  /\ \A r \in Requests : \A e \in ExtPoints :
       req[r].phase # "new" =>
         LET chain == listeners[req[r].listener][e]
             ran   == Invoked(r, e)
         IN  Len(ran) <= Len(chain) /\ ran = SubSeq(chain, 1, Len(ran))

\* the hooks registered on one chain have run for a request, the first
\* registered first
C10_Witness ==
  \E r \in Requests : \E e \in ExtPoints :
    Invoked(r, e) = [i \in 1..MaxHooks |-> i]

HasPrefix(pathname, basePath) ==
  /\ Len(basePath) <= Len(pathname)
  /\ \A i \in 1..Len(basePath) : pathname[i] = basePath[i]
Behind(pathname, basePath) ==
  [i \in 1..(Len(pathname) - Len(basePath)) |-> pathname[i + Len(basePath)]]

\* C12: setup installs the rewrite hook exactly when the config has a base
\* path and rewriteBasePath is true; the hook forwards a request whose
\* pathname has the base path as prefix to the pathname with the prefix
\* removed once ("/" when nothing is left), without answering it, and
\* rejects every other request with 404.
C12_BasePathRewrite ==
  /\ [](\A config \in RewriteConfigs :
          setupBasePathRewrite(config) = <<>>
            <=> (config.basePath = Undefined \/ ~config.rewriteBasePath))
  /\ [][\A r \in Requests :
          (req[r].phase = "onRequest" /\ req'[r] # req[r]
             /\ listeners[req[r].listener].onRequest[req[r].idx] = RewriteHook) =>
            LET basePath == listeners[req[r].listener].basePath
                pathname == req[r].path
            IN  IF HasPrefix(pathname, basePath)
                  THEN /\ req'[r].path = IF Behind(pathname, basePath) = <<>>
                                           THEN <<"/">>
                                           ELSE Behind(pathname, basePath)
                       /\ req'[r].phase = "auth"
                       /\ req'[r].status = 0
                  ELSE /\ req'[r].phase = "done"
                       /\ req'[r].status = 404
                       /\ req'[r].path = pathname]_vars

\* a request for the base path itself was forwarded to "/"
C12_Witness ==
  \E r \in Requests :
    /\ req[r].phase = "auth"
    /\ listeners[req[r].listener].basePath = <<"/", "a">>
    /\ req[r].trace = << Event("onRequest", RewriteHook, "forwarded") >>
    /\ req[r].path = <<"/">>

\* C13: the route of a router with path "/api" and route path "widgets"
\* is not bound at "/apiwidgets".
C13_NoFusedPath ==
  \A l \in DOMAIN listeners : \A b \in listeners[l].routes :
    b.handler = <<Api, Widgets>> => b.path # Api \o Widgets

\* C14: the path a route is bound at is the router path followed by the
\* route path, less the leading slash of the route path when the router
\* path ends with a slash and the route path starts with one.
C14_JoinedPath ==
  \A l \in DOMAIN listeners : \A b \in listeners[l].routes :
    LET routerPath == b.handler[1]
        routePath  == b.handler[2]
        doubled    == /\ routerPath # <<>> /\ routerPath[Len(routerPath)] = "/"
                      /\ routePath # <<>> /\ routePath[1] = "/"
    IN  b.path = IF doubled THEN routerPath \o Tail(routePath)
                            ELSE routerPath \o routePath

\* "/api/" and "/widgets" are bound at "/api/widgets"
C14_Witness ==
  \E l \in DOMAIN listeners : \E b \in listeners[l].routes :
    /\ b.handler = << Api \o <<"/">>, <<"/">> \o Widgets >>
    /\ b.path = Api \o <<"/">> \o Widgets
    /\ listeners[l].phase = "started"

\* C15: without a listener start fails; no step taken while there is no
\* listener binds a route or makes the server listen.
C15_StartNeedsListener ==
  /\ [](server = 0 => startError # "")
  /\ [][server = 0 =>
          /\ ~isListening'
          /\ \A l \in DOMAIN listeners :
               listeners'[l].routes \subseteq listeners[l].routes]_vars

\* the listener was stopped with a router registered, and start fails
C15_Witness ==
  /\ server = 0
  /\ Len(listeners) >= 1
  /\ registeredRouters # {}
  /\ startError = "Http server is not setup up yet"

\* C16: stop does not fail without a listener or on a listener that was
\* never started; without a listener it changes nothing: no listener
\* starts to stop.
C16_StopWithoutListener ==
  /\ []((server = 0 \/ listeners[server].phase = "stopped") => stopError = "")
  /\ [][server = 0 =>
          \A l \in DOMAIN listeners :
            listeners'[l].phase = "stopping" => listeners[l].phase = "stopping"]_vars

\* the stop of a listener that bound no route has completed, and a further
\* stop does not fail
C16_Witness ==
  /\ server = 0
  /\ Len(listeners) = 1
  /\ listeners[1].phase = "stopped"
  /\ registeredRouters = {}
  /\ stopError = ""

\* C17: when stop completes no router and no authentication scheme is
\* registered any more.
C17_StopResets ==
  [][(server # 0 /\ server' = 0) =>
       (registeredRouters' = {} /\ ~authRegistered')]_vars

\* C18: while there is no listener, or while the server listens, the set
\* of registered routers does not change and no chain gets a handler.
C18_RegistrationWindow ==
  [][(server = 0 \/ isListening) =>
       /\ registeredRouters' = registeredRouters
       /\ \A l \in DOMAIN listeners : \A e \in ExtPoints :
            Len(listeners'[l][e]) <= Len(listeners[l][e])]_vars

\* the step appends one handler to chain e of this.server and changes no
\* other chain of any listener
OnlyExtended(e) ==
  /\ server # 0
  /\ DOMAIN listeners' = DOMAIN listeners
  /\ \A l \in DOMAIN listeners : \A x \in ExtPoints :
       IF l = server /\ x = e
         THEN /\ Len(listeners'[l][x]) = Len(listeners[l][x]) + 1
              /\ SubSeq(listeners'[l][x], 1, Len(listeners[l][x])) = listeners[l][x]
         ELSE listeners'[l][x] = listeners[l][x]

\* C19: without a listener the three hook registrations fail and no chain
\* gets a handler; with a listener each of them appends one handler to
\* its own chain and leaves the other chains as they are.
C19_HookRegistration ==
  /\ [](server = 0 => /\ registerOnPreAuthError # ""
                      /\ registerOnPostAuthError # ""
                      /\ registerOnPreResponseError # "")
  /\ [][/\ server = 0 =>
             \A l \in DOMAIN listeners : \A e \in ExtPoints :
               Len(listeners'[l][e]) <= Len(listeners[l][e])
        /\ RegisterOnPreAuth => OnlyExtended("onRequest")
        /\ RegisterOnPostAuth => OnlyExtended("onPostAuth")
        /\ RegisterOnPreResponse => OnlyExtended("onPreResponse")]_vars

\* hooks were registered on two chains of the second listener, after the
\* first was stopped
C19_Witness ==
  /\ server = 2
  /\ listeners[2].onPostAuth = <<1>>
  /\ listeners[2].onPreResponse = <<2>>
  /\ registerOnPreAuthError = ""

\* the place of a phase, and of the event of a phase, in the pipeline
PhaseRank(phase) ==
  CASE phase = "new"           -> 0
    [] phase = "onRequest"     -> 1
    [] phase = "auth"          -> 2
    [] phase = "onPostAuth"    -> 3
    [] phase = "handler"       -> 4
    [] phase = "onPreResponse" -> 5
    [] phase = "done"          -> 6

\* trace tr has an event of the given phase
Ran(tr, phase) == \E i \in DOMAIN tr : tr[i].ext = phase

\* the hooks of chain e that have run for trace tr, in order
InvokedOf(tr, e) ==
  LET evs == SelectSeq(tr, LAMBDA ev : ev.ext = e)
  IN  [i \in 1..Len(evs) |-> evs[i].hook]

\* C20: a request passes the phases in the order PreAuth chain,
\* authentication, PostAuth chain, route handler, PreResponse chain: the
\* events of its trace are in that order and all but the last let it pass;
\* it leaves the PreAuth chain for authentication only when the whole
\* chain has run (or a hook forwarded it); the authentication handler
\* runs exactly when the route is bound enforced on a listener with the
\* scheme; the route handler starts only when the whole PostAuth chain has
\* run; the request is answered by the route handler only when the handler
\* and then the whole PreResponse chain have run.
C20_PhaseOrder ==
  /\ [](\A r \in Requests :
          LET tr == req[r].trace
          IN  /\ \A i, j \in DOMAIN tr :
                   i < j => /\ PhaseRank(tr[i].ext) <= PhaseRank(tr[j].ext)
                            /\ tr[i].ext \in {"auth", "handler"} => tr[i].ext # tr[j].ext
                            /\ tr[i].res \in {"next", "forwarded", "authenticated"}
              /\ tr # <<>> => PhaseRank(tr[Len(tr)].ext) <= PhaseRank(req[r].phase))
  /\ [][\A r \in Requests :
          req'[r] # req[r] =>
            LET q     == req[r]
                n     == req'[r]
                l     == listeners[n.listener]
                enforced == /\ l.scheme
                            /\ \E b \in l.routes : b.path = q.path /\ b.auth = "undefined"
            IN  /\ PhaseRank(q.phase) <= PhaseRank(n.phase)
                /\ (PhaseRank(q.phase) <= 1 /\ n.phase = "auth") =>
                     \/ InvokedOf(n.trace, "onRequest") = l.onRequest
                     \/ n.trace[Len(n.trace)].res = "forwarded"
                /\ (q.phase = "auth" /\ n.phase \notin {"auth", "done"}) =>
                     IF enforced
                       THEN n.trace = Append(q.trace, Event("auth", RewriteHook, "authenticated"))
                       ELSE n.trace = q.trace
                /\ (q.phase = "auth" /\ n.trace # q.trace) => enforced
                /\ (PhaseRank(q.phase) <= 3 /\ n.phase \in {"handler", "onPreResponse"}) =>
                     InvokedOf(n.trace, "onPostAuth") = l.onPostAuth
                /\ (PhaseRank(q.phase) <= 4 /\ n.phase = "onPreResponse") =>
                     Ran(n.trace, "handler")
                /\ (n.phase = "done" /\ n.status = 200) =>
                     /\ Ran(n.trace, "handler")
                     /\ InvokedOf(n.trace, "onPreResponse") = l.onPreResponse]_vars

\* a request was forwarded by the rewrite hook, authenticated, passed a
\* PostAuth hook, was handled and passed a PreResponse hook
C20_Witness ==
  \E r \in Requests :
    /\ req[r].phase = "done"
    /\ req[r].status = 200
    /\ [i \in 1..Len(req[r].trace) |-> req[r].trace[i].ext]
         = << "onRequest", "auth", "onPostAuth", "handler", "onPreResponse" >>

\* C21: within one chain, a handler that returned rejected or redirected
\* for a request is the last handler of that chain invoked for it: no
\* event of the same extension point follows it in the request's trace,
\* and the request is answered.
C21_ShortCircuit ==
  \A r \in Requests : \A i \in DOMAIN req[r].trace :
    LET ev == req[r].trace[i]
    IN  (ev.ext \in ExtPoints /\ ev.res \in {"rejected", "redirected"}) =>
          /\ \A j \in DOMAIN req[r].trace : j > i => req[r].trace[j].ext # ev.ext
          /\ req[r].phase = "done"

\* the first of two hooks of a chain redirected a request, and the second
\* one did not run
C21_Witness ==
  \E r \in Requests : \E e \in ExtPoints :
    /\ req[r].phase = "done"
    /\ listeners[req[r].listener][e] = <<1, 2>>
    /\ Invoked(r, e) = <<1>>
    /\ req[r].trace[Len(req[r].trace)] = Event(e, 1, "redirected")

\* C22: isListening() is true exactly when a listener this instance
\* created is accepting connections.
C22_ListeningIffAccepting ==
  isListening <=> \E l \in DOMAIN listeners : listeners[l].phase = "started"

\* C23: the authentication record of a request is written only by the
\* successful authentication of that request, and once present it never
\* changes.
C23_AuthRecordOnce ==
  [][\A r \in Requests :
       /\ authState[r] # NoAuthState => authState'[r] = authState[r]
       /\ authState'[r] # authState[r] =>
            /\ req[r].phase = "auth"
            /\ req'[r].authResult = "authenticated"]_vars

\* a request the rewrite hook forwarded was authenticated with a session
\* state and answered by its handler
C23_Witness ==
  \E r \in Requests :
    /\ req[r].phase = "done"
    /\ req[r].status = 200
    /\ authState[r] = "s1"
    /\ \E i \in DOMAIN req[r].trace : req[r].trace[i].res = "forwarded"

\* C24: getBasePathFor returns the base path of the config given to setup,
\* or the empty string when it has none, followed by the override of the
\* request, or the empty string when it has none.
C24_BasePathFor ==
  \A config \in Configs : \A r \in Requests :
    getBasePathFor(config, r) =
      (IF config.basePath = Undefined THEN <<>> ELSE config.basePath)
        \o (IF basePathCache[r] = NoBasePath THEN <<>> ELSE basePathCache[r])

\* a request has an override on a server that has a base path
C24_Witness ==
  \E r \in Requests :
    /\ basePathCache[r] = <<"/", "s">>
    /\ getBasePathFor([basePath |-> AppBasePath, rewriteBasePath |-> TRUE], r)
         = <<"/", "p", "/", "s">>

\* C25: a request that carries its own authorization header is
\* authenticated without the session state, whatever the state holds: with
\* an unsupported scheme the result is notHandled and the backend is not
\* called at all; with a Bearer token the backend rejects the result is
\* failed with the backend's error; the token of the state is never sent
\* and never refreshed.
C25_HeaderBeforeState ==
  provider.scheme # "none" =>
    /\ provider.pc \notin {"state", "refresh"}
    /\ provider.refreshCalls = 0
    /\ provider.pc = "done" =>
         /\ provider.scheme = "Basic" =>
              /\ provider.result = NotHandled
              /\ provider.authenticateCalls = 0
              /\ provider.getAccessTokenCalls = 0
         /\ (provider.scheme = "Bearer" /\ provider.backend.header # "user") =>
              /\ provider.result = Failed(provider.backend.header, <<>>)
              /\ provider.authenticateCalls = 1

\* the Bearer token of the header was rejected while the state held a
\* token pair the backend accepts
C25_Witness ==
  /\ provider.pc = "done"
  /\ provider.scheme = "Bearer"
  /\ provider.state = "tokenPair"
  /\ provider.backend.state = "user"
  /\ provider.backend.header = "unauthorized"
  /\ provider.result.kind = "failed"

C27_RegisteredRoutersBound ==
  isListening =>
    \A router \in registeredRouters : \A route \in router.routes :
      \E b \in listeners[server].routes : b.handler = << router.path, route.path >>

\* C28: a route bound to take the default authentication strategy is bound
\* on a listener that has the scheme installed as its default strategy.
C28_EnforcedRouteHasScheme ==
  \A l \in DOMAIN listeners : \A b \in listeners[l].routes :
    b.auth = "undefined" => listeners[l].scheme

\* C29: once the accepted registerAuth call has failed, the slot is as it
\* was before the call: no scheme counts as registered, auth.get answers
\* unknown for a request without a record, and registerAuth on a
\* configured server is not refused.
C29_FailedCallLeavesSlot ==
  authPromise = "rejected" =>
    /\ ~authRegistered
    /\ \A r \in Requests : authState[r] = NoAuthState => getAuthData(r).status = "unknown"
    /\ server # 0 => registerAuthError = ""

\* C30: when stop has completed and no setup has followed, no listener
\* this instance created is accepting connections.
C30_StopReleasesListeners ==
  server = 0 => \A l \in DOMAIN listeners : listeners[l].phase # "started"

\* C31: the rewrite hook of a listener whose base path does not end with
\* a slash forwards a request only to a path that begins with "/".
C31_ForwardKeepsSlash ==
  \A r \in Requests :
    (/\ req[r].phase # "new"
     /\ ~EndsWith(OrEmpty(listeners[req[r].listener].basePath), <<"/">>)
     /\ \E i \in DOMAIN req[r].trace : req[r].trace[i].res = "forwarded") =>
      StartsWith(req[r].path, <<"/">>)

\* C32: on a listener that rewrites the base path the rewrite hook is the
\* first handler of the PreAuth chain and occurs in it once; it is the
\* first PreAuth handler invoked for a request, and a hook registered
\* through the capability is invoked only for a request the rewrite hook
\* has forwarded, so for none whose path lacks the base path.
C32_RewriteHookFirst ==
  /\ \A l \in DOMAIN listeners :
       listeners[l].basePath # Undefined =>
         /\ listeners[l].onRequest # <<>>
         /\ \A i \in DOMAIN listeners[l].onRequest :
              listeners[l].onRequest[i] = RewriteHook <=> i = 1
  /\ \A r \in Requests :
       (req[r].phase # "new" /\ listeners[req[r].listener].basePath # Undefined) =>
         \A j \in DOMAIN req[r].trace :
           (req[r].trace[j].ext = "onRequest" /\ req[r].trace[j].hook # RewriteHook) =>
             \E i \in 1..(j - 1) :
               req[r].trace[i] = Event("onRequest", RewriteHook, "forwarded")

\* a request whose path lacks the base path was rejected by the rewrite
\* hook, and the two hooks registered behind it did not run
C32_Witness ==
  \E r \in Requests :
    /\ req[r].phase = "done"
    /\ listeners[req[r].listener].onRequest = << RewriteHook, 1, 2 >>
    /\ ~StartsWith(req[r].path, listeners[req[r].listener].basePath)
    /\ req[r].trace = << Event("onRequest", RewriteHook, "rejected") >>

====
